---- MODULE Spec2Model ----
(***************************************************************************)
(* Model of the aws-dynamodb component: serverless.js (AwsDynamoDb.deploy  *)
(* and AwsDynamoDb.remove) and its utils module (createTable,              *)
(* describeTable, getGlobalIndexesUpdates, getStreamUpdates, updateTable,  *)
(* waitForActive, updateReplicas, deleteReplicas, deleteTable,             *)
(* getStreamArn).                                                          *)
(*                                                                         *)
(* JavaScript values are modelled as follows.  Strings are strings;        *)
(* undefined, null and false in a string-valued position are the strings   *)
(* Undefined, Null and False.  An object is a TLA+ record whose domain is  *)
(* the set of keys the object has; undefined and null in an object-valued  *)
(* position are the records UndefinedObj and NullObj.  An array is a       *)
(* sequence.  A provider call is one step: the request is logged in calls  *)
(* with the way it ended, and the code up to the next await runs with it.  *)
(***************************************************************************)
EXTENDS Integers, Sequences, FiniteSets, TLC

VARIABLES
    state,      \* this.state: the component's persisted state
    tables,     \* the provider: (region, name) -> table description
    pc,         \* position of the running deploy/remove ("idle" between runs)
    config,     \* deploy: the merged config of the run; remove: {name, region}
    prevTable,  \* the result of describeTable in this run
    tries,      \* getStreamArn: the loop counter
    calls,      \* provider calls issued by the current (or last) run, in order
    result,     \* how the last run ended
    run,        \* history: the operation, its inputs and this.state at its start
    ext,        \* number of out-of-band provider changes so far
    fn,         \* the pure function last applied, with arguments and result
    hist        \* history: when tracking, the desired and the first observed index
                \* list of the behaviour and the deploys that have succeeded in it

vars == <<state, tables, pc, config, prevTable, tries, calls, result, run, ext, fn, hist>>

-----------------------------------------------------------------------------
(* JavaScript values *)

Undefined == "undefined"
Null == "null"
False == "false"

UndefinedObj == [undefined |-> TRUE]

NullObj == [null |-> TRUE]

EmptyObj == <<>>

Range(s) == {s[i] : i \in DOMAIN s}

\* truthiness of a string-valued position
Truthy(v) == v \notin {Undefined, Null, False, ""}

\* truthiness of an object-valued position
IsObj(o) == DOMAIN o \cap {"undefined", "null"} = {}

\* o[k], undefined when the object has no such key
Get(o, k) == IF k \in DOMAIN o THEN o[k] ELSE Undefined

\* o.StreamEnabled as a condition: a missing key is undefined, hence falsy
StreamEnabledOf(o) == "StreamEnabled" \in DOMAIN o /\ o.StreamEnabled = TRUE

isEmpty(o) == DOMAIN o = {}

\* the object o after o[k] = v; a key assigned undefined reads as a missing key
Set(o, k, v) ==
    IF v = Undefined THEN [j \in DOMAIN o \ {k} |-> o[j]] ELSE (k :> v) @@ o

\* ramda pick(keys, o): the keys of the list that o has
pick(keys, o) == [k \in Range(keys) \cap DOMAIN o |-> o[k]]

-----------------------------------------------------------------------------
(* Bounds and input domains *)

MaxIdx == 2       \* longest list of global secondary indexes drawn
MaxReplicas == 3  \* longest list of replicas drawn
MaxExt == 1       \* out-of-band provider changes per behaviour

IndexNames == {"a", "b", "c"}
IndexKeys == {"k1", "k2"}
Indexes == [IndexName : IndexNames, KeySchema : IndexKeys]

\* region names in the order Array.prototype.sort() puts them (UTF-16 code units)
RegionOrder == <<"ap-south-1", "eu-west-1", "us-east-1">>
RegionNames == Range(RegionOrder)

SeqsUpTo(S, n) == UNION {[1..k -> S] : k \in 0..n}

StreamSpecs ==
    { [StreamEnabled |-> FALSE],
      [StreamEnabled |-> TRUE, StreamViewType |-> "NEW_IMAGE"],
      [StreamEnabled |-> TRUE, StreamViewType |-> "KEYS_ONLY"],
      [StreamViewType |-> "NEW_IMAGE"] }

-----------------------------------------------------------------------------
(* utils: the pure reconcilers *)

HasIndexName(list, name) == \E i \in DOMAIN list : list[i].IndexName = name

getGlobalIndexesUpdates_noTruncate(prevGlobalSecondaryIndexes, globalSecondaryIndexes) ==
    LET NotInPrev(g) == ~HasIndexName(prevGlobalSecondaryIndexes, g.IndexName)
        NotInNext(g) == ~HasIndexName(globalSecondaryIndexes, g.IndexName)
        toCreate == SelectSeq(globalSecondaryIndexes, NotInPrev)
        toDelete == SelectSeq(prevGlobalSecondaryIndexes, NotInNext)
    IN  (IF toCreate # <<>> THEN "Create" :> toCreate[Len(toCreate)] ELSE EmptyObj)
        @@ (IF toDelete # <<>> THEN "Delete" :> toDelete[Len(toDelete)] ELSE EmptyObj)

getGlobalIndexesUpdates_createOnly(prevGlobalSecondaryIndexes, globalSecondaryIndexes) ==
    LET NotInPrev(g) == ~HasIndexName(prevGlobalSecondaryIndexes, g.IndexName)
        NotInNext(g) == ~HasIndexName(globalSecondaryIndexes, g.IndexName)
        toCreate == SelectSeq(globalSecondaryIndexes, NotInPrev)
        filtered == SelectSeq(prevGlobalSecondaryIndexes, NotInNext)
        toDelete == [i \in DOMAIN filtered |-> [IndexName |-> filtered[i].IndexName]]
    IN  IF Len(toCreate) > 0 THEN "Create" :> toCreate[1]
        ELSE IF Len(toDelete) > 0 THEN "Delete" :> toDelete[1] ELSE EmptyObj

getGlobalIndexesUpdates(prevGlobalSecondaryIndexes, globalSecondaryIndexes) ==
    LET NotInPrev(g) == ~HasIndexName(prevGlobalSecondaryIndexes, g.IndexName)
        NotInNext(g) == ~HasIndexName(globalSecondaryIndexes, g.IndexName)
        toCreate == SelectSeq(globalSecondaryIndexes, NotInPrev)
        filtered == SelectSeq(prevGlobalSecondaryIndexes, NotInNext)
        toDelete == [i \in DOMAIN filtered |-> [IndexName |-> filtered[i].IndexName]]
    IN  (IF Len(toCreate) > 0 THEN "Create" :> toCreate[1] ELSE EmptyObj)
        @@ (IF Len(toDelete) > 0 THEN "Delete" :> toDelete[1] ELSE EmptyObj)

getStreamUpdates_enableFirst(prevStream, stream) ==
    IF IsObj(stream) /\ StreamEnabledOf(stream) THEN stream
    ELSE IF IsObj(prevStream) /\ StreamEnabledOf(prevStream)
         THEN [StreamEnabled |-> FALSE]
         ELSE NullObj

getStreamUpdates(prevStream, stream) ==
    LET disabledStream ==
            /\ IsObj(prevStream)
            /\ StreamEnabledOf(prevStream)
            /\ (~IsObj(stream) \/ ~StreamEnabledOf(stream))
        enabledStream ==
            /\ (~IsObj(prevStream) \/ ~StreamEnabledOf(prevStream))
            /\ IsObj(stream)
            /\ StreamEnabledOf(stream)
    IN  IF disabledStream THEN [StreamEnabled |-> FALSE]
        ELSE IF enabledStream THEN stream
        ELSE NullObj

\* Array.prototype.sort() on region names: insertion sort by code-unit order
RegionRank(r) == CHOOSE i \in DOMAIN RegionOrder : RegionOrder[i] = r

RECURSIVE Insert(_, _)
Insert(r, sorted) ==
    IF sorted = <<>> THEN <<r>>
    ELSE IF RegionRank(r) <= RegionRank(Head(sorted)) THEN <<r>> \o sorted
    ELSE <<Head(sorted)>> \o Insert(r, Tail(sorted))

RECURSIVE sort(_)
sort(list) == IF list = <<>> THEN <<>> ELSE Insert(Head(list), sort(Tail(list)))

RegionsOf(replicas) == [i \in DOMAIN replicas |-> replicas[i].RegionName]

Front(s) == SubSeq(s, 1, Len(s) - 1)

\* ramda difference(a, b): the elements of a not in b, without duplicates, in a's order
RECURSIVE difference(_, _)
difference(a, b) ==
    IF a = <<>> THEN <<>>
    ELSE LET rest == difference(Front(a), b)
             x == a[Len(a)]
         IN  IF x \in Range(b) \/ x \in Range(rest) THEN rest ELSE Append(rest, x)

\* updateReplicas, lines 167-178: the no-op test and the ReplicaUpdates it would send
updateReplicasPlan_unsorted(prevReplicas, replicas) ==
    LET prevRegions == RegionsOf(prevReplicas)
        currentRegions == RegionsOf(replicas)
        addReplicas == difference(currentRegions, prevRegions)
        deleteReplicas == difference(prevRegions, currentRegions)
    IN  IF prevRegions = currentRegions
        THEN [noop |-> TRUE]
        ELSE [noop |-> FALSE,
              ReplicaUpdates |->
                  [i \in DOMAIN addReplicas |-> [Create |-> [RegionName |-> addReplicas[i]]]]
                  \o [i \in DOMAIN deleteReplicas |->
                         [Delete |-> [RegionName |-> deleteReplicas[i]]]]]

updateReplicasPlan_deleteAll(prevReplicas, replicas) ==
    LET prevRegions == sort(RegionsOf(prevReplicas))
        currentRegions == sort(RegionsOf(replicas))
        addReplicas == difference(currentRegions, prevRegions)
        deleteReplicas == difference(prevRegions, <<>>)
    IN  IF prevRegions = currentRegions
        THEN [noop |-> TRUE]
        ELSE [noop |-> FALSE,
              ReplicaUpdates |->
                  [i \in DOMAIN addReplicas |-> [Create |-> [RegionName |-> addReplicas[i]]]]
                  \o [i \in DOMAIN deleteReplicas |->
                         [Delete |-> [RegionName |-> deleteReplicas[i]]]]]

updateReplicasPlan(prevReplicas, replicas) ==
    LET prevRegions == sort(RegionsOf(prevReplicas))
        currentRegions == sort(RegionsOf(replicas))
        addReplicas == difference(currentRegions, prevRegions)
        deleteReplicas == difference(prevRegions, currentRegions)
    IN  IF prevRegions = currentRegions
        THEN [noop |-> TRUE]
        ELSE [noop |-> FALSE,
              ReplicaUpdates |->
                  [i \in DOMAIN addReplicas |-> [Create |-> [RegionName |-> addReplicas[i]]]]
                  \o [i \in DOMAIN deleteReplicas |->
                         [Delete |-> [RegionName |-> deleteReplicas[i]]]]]

-----------------------------------------------------------------------------
(* serverless.js: constants *)

outputsList == <<"name", "arn", "region", "streamArn">>

defaults ==
    [ attributeDefinitions |-> <<[AttributeName |-> "id", AttributeType |-> "S"]>>,
      keySchema |-> <<[AttributeName |-> "id", KeyType |-> "HASH"]>>,
      globalSecondaryIndexes |-> <<>>,
      name |-> Null,
      region |-> "us-east-1",
      replicas |-> <<>>,
      stream |-> [StreamEnabled |-> FALSE] ]

\* keys of defaults whose values are objects: mergeDeepRight merges them key by key
ObjectKeys == {"stream"}

\* ramda mergeDeepRight(l, r): r's value wins, objects are merged recursively
mergeDeepRight(l, r) ==
    [k \in DOMAIN l \cup DOMAIN r |->
        IF k \notin DOMAIN r THEN l[k]
        ELSE IF k \notin DOMAIN l THEN r[k]
        ELSE IF k \in ObjectKeys /\ IsObj(l[k]) /\ IsObj(r[k])
             THEN [j \in DOMAIN l[k] \cup DOMAIN r[k] |->
                      IF j \in DOMAIN r[k] THEN r[k][j] ELSE l[k][j]]
             ELSE r[k]]

\* 'dynamodb-table-' + Math.random().toString(36).substring(6): the names it can draw
GeneratedNames == {"dynamodb-table-x7"}

-----------------------------------------------------------------------------
(* The provider (the AWS.DynamoDB client of the run's region) *)

TableArn(region, name) == "arn:aws:dynamodb:" \o region \o ":table/" \o name

LatestStreamArn(region, name) == TableArn(region, name) \o "/stream/1"

Slot(cfg) == <<cfg.region, cfg.name>>

TableExists(slot) == slot \in DOMAIN tables

PutTable(slot, t) ==
    [s \in DOMAIN tables \cup {slot} |-> IF s = slot THEN t ELSE tables[s]]

DropTable(slot) == [s \in DOMAIN tables \ {slot} |-> tables[s]]

\* a table as the provider keeps it, as createTable leaves it: TableStatus is
\* CREATING until the provider has built it; a table that never had a stream has
\* no StreamSpecification and no LatestStreamArn
NewTable(gsi, stream, streamArn) ==
    [ gsi |-> gsi,
      stream |-> IF IsObj(stream) /\ StreamEnabledOf(stream) THEN stream ELSE UndefinedObj,
      streamArn |-> streamArn,
      replicas |-> <<>>,
      status |-> "CREATING" ]

Active(t) == [t EXCEPT !.status = "ACTIVE"]

\* TableStatus values of a table in transition
InTransition == {"CREATING", "UPDATING"}

\* the provider applies GlobalSecondaryIndexUpdates and StreamSpecification
ApplyTableUpdate(t, indexUpdates, streamUpdates) ==
    LET Kept(g) == ~("Delete" \in DOMAIN indexUpdates
                     /\ g.IndexName = indexUpdates.Delete.IndexName)
        afterDelete == SelectSeq(t.gsi, Kept)
        afterCreate == IF "Create" \in DOMAIN indexUpdates
                       THEN Append(afterDelete, indexUpdates.Create)
                       ELSE afterDelete
    IN  [ gsi |-> afterCreate,
          stream |-> IF IsObj(streamUpdates) THEN streamUpdates ELSE t.stream,
          streamArn |-> IF IsObj(streamUpdates) THEN Undefined ELSE t.streamArn,
          replicas |-> t.replicas,
          status |-> IF ~isEmpty(indexUpdates) \/ IsObj(streamUpdates)
                     THEN "UPDATING" ELSE t.status ]

\* the provider applies ReplicaUpdates
ApplyReplicaUpdates(t, updates) ==
    LET deleted == {updates[i].Delete.RegionName :
                       i \in {j \in DOMAIN updates : "Delete" \in DOMAIN updates[j]}}
        created == {i \in DOMAIN updates : "Create" \in DOMAIN updates[i]}
        Kept(r) == r.RegionName \notin deleted
        RECURSIVE Creates(_)
        Creates(i) == IF i > Len(updates) THEN <<>>
                      ELSE (IF i \in created THEN <<updates[i].Create>> ELSE <<>>)
                           \o Creates(i + 1)
    IN  [t EXCEPT !.replicas = SelectSeq(t.replicas, Kept) \o Creates(1),
                  !.status = IF updates # <<>> THEN "UPDATING" ELSE t.status]

\* describeTable, lines 38-47: the normalized description of an existing table
Description(slot) ==
    [ arn |-> TableArn(slot[1], slot[2]),
      name |-> slot[2],
      globalSecondaryIndexes |-> tables[slot].gsi,
      stream |-> tables[slot].stream,
      streamArn |-> tables[slot].streamArn,
      replicas |-> tables[slot].replicas ]

\* how a provider call can end: "ok", "ResourceNotFoundException", or another error.
\* A call naming no table (TableName null) is rejected; any call can fail.
CallOutcomes(slot) ==
    IF ~Truthy(slot[2]) THEN {"error"}
    ELSE IF TableExists(slot) THEN {"ok", "error"}
    ELSE {"ResourceNotFoundException", "error"}

\* waitFor('tableExists') polls until TableStatus is ACTIVE and gives up after its
\* last attempt: it resolves only on an ACTIVE table
WaitOutcomes_anyStatus(slot) == CallOutcomes(slot)

WaitOutcomes(slot) ==
    IF TableExists(slot) /\ tables[slot].status # "ACTIVE" THEN {"error"}
    ELSE CallOutcomes(slot)

CreateOutcomes(slot) ==
    IF ~Truthy(slot[2]) \/ TableExists(slot) THEN {"error"} ELSE {"ok", "error"}

\* describeTable, lines 33-55: every error is caught; only ResourceNotFoundException
\* sets res (to null), any other error leaves it undefined, and finally returns res
describeTable(slot, outcome) ==
    IF outcome = "ok" THEN Description(slot)
    ELSE IF outcome = "ResourceNotFoundException" THEN NullObj
    ELSE UndefinedObj

\* the TableStatus of the table a request names at the time it is submitted,
\* kept with the calls that change replicas or delete the table
StatusOf(slot) == IF TableExists(slot) THEN tables[slot].status ELSE "ABSENT"

Call(op, slot, outcome, payload) ==
    [op |-> op, region |-> slot[1], name |-> slot[2], outcome |-> outcome] @@ payload

-----------------------------------------------------------------------------
(* How a run ends *)

Running == [kind |-> "running"]

NoHist == [tracking |-> FALSE]

\* the history after a deploy has resolved
Completed ==
    IF hist.tracking /\ run.op = "deploy"
    THEN [hist EXCEPT !.deploys = @ + 1]
    ELSE hist

\* the run rejects with an error of the given kind
Throw(kind) ==
    /\ pc' = "done"
    /\ result' = [kind |-> kind]
    /\ config' = EmptyObj
    /\ prevTable' = UndefinedObj
    /\ tries' = 0
    /\ hist' = hist

\* the run resolves with the given value
Return(outputs) ==
    /\ pc' = "done"
    /\ result' = [kind |-> "ok", outputs |-> outputs]
    /\ config' = EmptyObj
    /\ prevTable' = UndefinedObj
    /\ tries' = 0
    /\ hist' = Completed

Goto(label, cfg, observed) ==
    /\ pc' = label
    /\ result' = Running
    /\ config' = cfg
    /\ prevTable' = observed
    /\ tries' = 0
    /\ hist' = hist

NoRun == [op |-> "none", inputs |-> EmptyObj, state0 |-> EmptyObj]

\* the process of the run ends; this.state is what the next run starts from
Exit ==
    /\ pc = "done"
    /\ pc' = "idle"
    /\ calls' = <<>>
    /\ result' = [kind |-> "none"]
    /\ run' = NoRun
    /\ UNCHANGED <<state, tables, config, prevTable, tries, ext, fn, hist>>

-----------------------------------------------------------------------------
(* AwsDynamoDb.deploy *)

maxTries == 5

\* updateReplicas, lines 166-171, reached from deploy line 117 after lines 108-114
\* have written this.state
AfterTableCommit(cfg, prevReplicas) ==
    /\ state' = Set(Set(Set(Set(Set(state,
                    "arn", Get(cfg, "arn")),
                    "streamArn", Get(cfg, "streamArn")),
                    "name", cfg.name),
                    "region", cfg.region),
                    "deletionPolicy", Get(cfg, "deletionPolicy"))
    /\ IF updateReplicasPlan(prevReplicas, cfg.replicas).noop
       THEN Return(pick(outputsList, cfg))
       ELSE Goto("deploy_wait", cfg, prevTable)

\* (prevTable && prevTable.replicas) || []
PrevReplicas == IF IsObj(prevTable) THEN prevTable.replicas ELSE <<>>

\* deploy, lines 48-66: what the name of the run is
\*   "generate": first deploy and no name given, "adopt": first deploy with a name,
\*   "throw": a later deploy with another name, "keep": none of the three branches
NameResolution_noCheck(configName, stateName) ==
    IF ~Truthy(configName) /\ ~Truthy(stateName) THEN "generate"
    ELSE IF Truthy(configName) /\ ~Truthy(stateName) THEN "adopt"
    ELSE "keep"

NameResolution(configName, stateName) ==
    IF ~Truthy(configName) /\ ~Truthy(stateName) THEN "generate"
    ELSE IF Truthy(configName) /\ ~Truthy(stateName) THEN "adopt"
    ELSE IF Truthy(configName) /\ Truthy(stateName) /\ configName # stateName THEN "throw"
    ELSE "keep"

\* deploy, lines 39-75: credentials check, merge, name resolution
DeployStart(inputs, credentials) ==
    /\ pc = "idle"
    /\ run' = [op |-> "deploy", inputs |-> inputs, state0 |-> state]
    /\ UNCHANGED <<tables, calls, ext, fn>>
    /\ IF isEmpty(credentials)
       THEN Throw("CredentialsError") /\ state' = state
       ELSE LET merged == mergeDeepRight(defaults, inputs)
                branch == NameResolution(merged.name, Get(state, "name"))
            IN  CASE branch = "generate" ->
                       \E generated \in GeneratedNames :
                          /\ state' = Set(state, "name", generated)
                          /\ Goto("deploy_describe", Set(merged, "name", generated),
                                  UndefinedObj)
                  [] branch = "adopt" ->
                       /\ state' = Set(state, "name", merged.name)
                       /\ Goto("deploy_describe", merged, UndefinedObj)
                  [] branch = "throw" ->
                       Throw("NameError") /\ state' = state
                  [] OTHER ->
                       /\ state' = state
                       /\ Goto("deploy_describe", merged, UndefinedObj)

\* deploy, lines 77-95: observe the table, choose the branch, check the region
DeployDescribe ==
    /\ pc = "deploy_describe"
    /\ \E outcome \in CallOutcomes(Slot(config)) :
          LET res == describeTable(Slot(config), outcome)
          IN  /\ calls' = Append(calls, Call("describeTable", Slot(config), outcome,
                                             [by |-> "deploy", res |-> res]))
              /\ IF ~IsObj(res)
                 THEN Goto("deploy_create", config, res)
                 ELSE IF config.region # Get(state, "region")
                 THEN Throw("RegionError")
                 ELSE Goto("deploy_update", Set(config, "arn", res.arn), res)
    /\ UNCHANGED <<state, tables, run, ext, fn>>

\* deploy, lines 80-84 and 108-120, with createTable, lines 7-31
DeployCreate ==
    /\ pc = "deploy_create"
    /\ \E outcome \in CreateOutcomes(Slot(config)),
          sync \in IF StreamEnabledOf(config.stream) THEN BOOLEAN ELSE {FALSE} :
          LET gsi == config.globalSecondaryIndexes
              payload == (IF Len(gsi) > 0 THEN [GlobalSecondaryIndexes |-> gsi]
                          ELSE EmptyObj)
                         @@ [StreamSpecification |-> config.stream]
              latest == IF sync THEN LatestStreamArn(config.region, config.name)
                        ELSE Undefined
              cfg == Set(Set(config,
                         "arn", TableArn(config.region, config.name)),
                         "streamArn", IF Truthy(latest) THEN latest ELSE False)
          IN  /\ calls' = Append(calls, Call("createTable", Slot(config), outcome, payload))
              /\ IF outcome # "ok"
                 THEN Throw("ProviderError") /\ UNCHANGED <<state, tables>>
                 ELSE /\ tables' = PutTable(Slot(config),
                                            NewTable(gsi, config.stream, latest))
                      /\ AfterTableCommit(cfg, PrevReplicas)
    /\ UNCHANGED <<run, ext, fn>>

\* updateTable, line 151: whether getStreamArn is called
NeedsStreamArn_never(stream) == FALSE

NeedsStreamArn(stream) == StreamEnabledOf(stream)

\* deploy, lines 95-105, with updateTable, lines 119-153; config.stream is the
\* inputs' stream merged over defaults.stream, or null when the inputs say null,
\* and stream.StreamEnabled of null is a TypeError
DeployUpdate ==
    /\ pc = "deploy_update"
    /\ \E outcome \in CallOutcomes(Slot(config)) :
          LET indexUpdates == getGlobalIndexesUpdates(prevTable.globalSecondaryIndexes,
                                                      config.globalSecondaryIndexes)
              streamUpdates == getStreamUpdates(prevTable.stream, config.stream)
              payload == (IF ~isEmpty(indexUpdates)
                          THEN [GlobalSecondaryIndexUpdates |-> <<indexUpdates>>]
                          ELSE EmptyObj)
                         @@ (IF IsObj(streamUpdates)
                             THEN [StreamSpecification |-> streamUpdates]
                             ELSE EmptyObj)
          IN  /\ calls' = Append(calls, Call("updateTable", Slot(config), outcome, payload))
              /\ IF outcome # "ok"
                 THEN Throw("ProviderError") /\ UNCHANGED <<state, tables>>
                 ELSE /\ tables' = PutTable(Slot(config),
                              ApplyTableUpdate(tables[Slot(config)], indexUpdates,
                                               streamUpdates))
                      /\ IF ~IsObj(config.stream)
                         THEN Throw("TypeError") /\ state' = state
                         ELSE IF NeedsStreamArn(config.stream)
                         THEN Goto("deploy_poll", config, prevTable) /\ state' = state
                         ELSE AfterTableCommit(Set(config, "streamArn", False),
                                               PrevReplicas)
    /\ UNCHANGED <<run, ext, fn>>

\* getStreamArn, line 234: the loop condition, on the incremented counter
PollAgain_inclusive(t) == t <= maxTries

PollAgain(t) == t < maxTries

\* getStreamArn, lines 222-237: one turn of the do-while loop
DeployPoll ==
    /\ pc = "deploy_poll"
    /\ \E outcome \in CallOutcomes(Slot(config)) :
          LET res == describeTable(Slot(config), outcome)
          IN  /\ calls' = Append(calls, Call("describeTable", Slot(config), outcome,
                                             [by |-> "getStreamArn", res |-> res]))
              /\ IF ~IsObj(res)
                 THEN Throw("TypeError") /\ state' = state
                 ELSE IF Truthy(res.streamArn)
                 THEN AfterTableCommit(Set(config, "streamArn", res.streamArn),
                                       PrevReplicas)
                 ELSE IF PollAgain(tries + 1)
                 THEN /\ tries' = tries + 1
                      /\ UNCHANGED <<state, pc, result, config, prevTable, hist>>
                 ELSE Throw("StreamArnError") /\ state' = state
    /\ UNCHANGED <<tables, run, ext, fn>>

\* updateReplicas line 180 with waitForActive, lines 161-164
DeployWait ==
    /\ pc = "deploy_wait"
    /\ \E outcome \in WaitOutcomes(Slot(config)) :
          /\ calls' = Append(calls, Call("waitFor", Slot(config), outcome, EmptyObj))
          /\ IF outcome # "ok"
             THEN Throw("ProviderError")
             ELSE Goto("deploy_replicas", config, prevTable)
    /\ UNCHANGED <<state, tables, run, ext, fn>>

\* updateReplicas, lines 181-186, then deploy lines 119-120
DeployReplicas ==
    /\ pc = "deploy_replicas"
    /\ \E outcome \in CallOutcomes(Slot(config)) :
          LET plan == updateReplicasPlan(PrevReplicas, config.replicas)
          IN  /\ calls' = Append(calls, Call("updateTable", Slot(config), outcome,
                                   [ReplicaUpdates |-> plan.ReplicaUpdates,
                                    status |-> StatusOf(Slot(config))]))
              /\ IF outcome # "ok"
                 THEN Throw("ProviderError") /\ tables' = tables
                 ELSE /\ tables' = PutTable(Slot(config),
                              ApplyReplicaUpdates(tables[Slot(config)],
                                                  plan.ReplicaUpdates))
                      /\ Return(pick(outputsList, config))
    /\ UNCHANGED <<state, run, ext, fn>>

-----------------------------------------------------------------------------
(* AwsDynamoDb.remove *)

\* remove, lines 130-140: "skip" returns {}, "abort" returns undefined
RemoveGate_policyOptional(persisted) ==
    IF Truthy(Get(persisted, "deletionPolicy")) /\ Get(persisted, "deletionPolicy") # "delete"
    THEN "skip"
    ELSE IF ~Truthy(Get(persisted, "name")) THEN "abort"
    ELSE "proceed"

RemoveGate(persisted) ==
    IF ~Truthy(Get(persisted, "deletionPolicy")) \/ Get(persisted, "deletionPolicy") # "delete"
    THEN "skip"
    ELSE IF ~Truthy(Get(persisted, "name")) THEN "abort"
    ELSE "proceed"

\* remove, lines 126-147: the deletionPolicy gate and the name check
RemoveStart ==
    /\ pc = "idle"
    /\ run' = [op |-> "remove", inputs |-> EmptyObj, state0 |-> state]
    /\ UNCHANGED <<state, tables, calls, ext, fn>>
    /\ CASE RemoveGate(state) = "skip" -> Return(EmptyObj)
         [] RemoveGate(state) = "abort" -> Return(UndefinedObj)
         [] OTHER -> Goto("remove_describe",
                          [name |-> Get(state, "name"), region |-> Get(state, "region")],
                          UndefinedObj)

\* remove, lines 149-150, with deleteReplicas, lines 189-192
RemoveDescribe ==
    /\ pc = "remove_describe"
    /\ \E outcome \in CallOutcomes(Slot(config)) :
          LET table == describeTable(Slot(config), outcome)
          IN  /\ calls' = Append(calls, Call("describeTable", Slot(config), outcome,
                                             [by |-> "remove", res |-> table]))
              /\ IF ~IsObj(table)
                 THEN Throw("TypeError")
                 ELSE IF table.replicas = <<>>
                 THEN Goto("remove_delete", config, table)
                 ELSE Goto("remove_replicas", config, table)
    /\ UNCHANGED <<state, tables, run, ext, fn>>

\* deleteReplicas, lines 197-199: a Delete for every replica
deleteReplicasUpdates_first(replicas) ==
    <<[Delete |-> [RegionName |-> replicas[1].RegionName]]>>

deleteReplicasUpdates(replicas) ==
    [i \in DOMAIN replicas |-> [Delete |-> [RegionName |-> replicas[i].RegionName]]]

\* deleteReplicas, lines 194-201
RemoveReplicas ==
    /\ pc = "remove_replicas"
    /\ \E outcome \in CallOutcomes(Slot(config)) :
          LET updates == deleteReplicasUpdates(prevTable.replicas)
          IN  /\ calls' = Append(calls, Call("updateTable", Slot(config), outcome,
                                             [ReplicaUpdates |-> updates,
                                              status |-> StatusOf(Slot(config))]))
              /\ IF outcome # "ok"
                 THEN Throw("ProviderError") /\ tables' = tables
                 ELSE /\ tables' = PutTable(Slot(config),
                              ApplyReplicaUpdates(tables[Slot(config)], updates))
                      /\ Goto("remove_wait", config, prevTable)
    /\ UNCHANGED <<state, run, ext, fn>>

\* deleteReplicas line 203 with waitForActive, lines 161-164
RemoveWait ==
    /\ pc = "remove_wait"
    /\ \E outcome \in WaitOutcomes(Slot(config)) :
          /\ calls' = Append(calls, Call("waitFor", Slot(config), outcome, EmptyObj))
          /\ IF outcome # "ok"
             THEN Throw("ProviderError")
             ELSE Goto("remove_delete", config, prevTable)
    /\ UNCHANGED <<state, tables, run, ext, fn>>

\* remove, lines 151-158, with deleteTable, lines 206-220
RemoveDelete ==
    /\ pc = "remove_delete"
    /\ \E outcome \in CallOutcomes(Slot(config)) :
          /\ calls' = Append(calls, Call("deleteTable", Slot(config), outcome,
                                         [status |-> StatusOf(Slot(config))]))
          /\ IF outcome = "error"
             THEN Throw("ProviderError") /\ UNCHANGED <<state, tables>>
             ELSE /\ tables' = DropTable(Slot(config))
                  /\ state' = EmptyObj
                  /\ Return(pick(outputsList, state))
    /\ UNCHANGED <<run, ext, fn>>

-----------------------------------------------------------------------------
(* The environment: the provider's own progress and out-of-band changes *)

\* the stream identifier of a table whose stream is enabled becomes available
ProviderStreamReady ==
    /\ \E slot \in DOMAIN tables :
          /\ StreamEnabledOf(tables[slot].stream)
          /\ ~Truthy(tables[slot].streamArn)
          /\ tables' = PutTable(slot, [tables[slot] EXCEPT
                                          !.streamArn = LatestStreamArn(slot[1], slot[2])])
    /\ UNCHANGED <<state, pc, config, prevTable, tries, calls, result, run, ext, fn,
                   hist>>

\* the provider finishes the transition a create or update call started
ProviderActive ==
    /\ \E slot \in DOMAIN tables :
          /\ tables[slot].status \in InTransition
          /\ tables' = PutTable(slot, Active(tables[slot]))
    /\ UNCHANGED <<state, pc, config, prevTable, tries, calls, result, run, ext, fn,
                   hist>>

\* somebody else creates a table with the default settings
ExternalCreate(region, name) ==
    /\ ext < MaxExt
    /\ ~TableExists(<<region, name>>)
    /\ tables' = PutTable(<<region, name>>,
                          Active(NewTable(<<>>, UndefinedObj, Undefined)))
    /\ ext' = ext + 1
    /\ UNCHANGED <<state, pc, config, prevTable, tries, calls, result, run, fn, hist>>

\* somebody else deletes a table
ExternalDelete ==
    /\ ext < MaxExt
    /\ \E slot \in DOMAIN tables : tables' = DropTable(slot)
    /\ ext' = ext + 1
    /\ UNCHANGED <<state, pc, config, prevTable, tries, calls, result, run, fn, hist>>

-----------------------------------------------------------------------------
(* Specifications *)

NoCall == [name |-> "none"]

Init ==
    /\ state = EmptyObj
    /\ tables = <<>>
    /\ pc = "idle"
    /\ config = EmptyObj
    /\ prevTable = UndefinedObj
    /\ tries = 0
    /\ calls = <<>>
    /\ result = [kind |-> "none"]
    /\ run = NoRun
    /\ ext = 0
    /\ fn = NoCall
    /\ hist = NoHist

Credentials == {EmptyObj, [accessKeyId |-> "AKIA", secretAccessKey |-> "secret"]}

\* an object with each of the given keys either missing or drawn from its set
Optional(key, values) == {EmptyObj} \cup {key :> v : v \in values}

Merge2(A, B) == {a @@ b : a \in A, b \in B}

\* the identity of the table: name, region and deletionPolicy vary
IdentityInputs ==
    Merge2(Optional("name", {"t1", "t2"}),
           Merge2(Optional("region", {"eu-west-1"}),
                  Optional("deletionPolicy", {"retain", "delete"})))

IdentityRegions == {"us-east-1", "eu-west-1"}
IdentityNames == {"t1", "t2"} \cup GeneratedNames

Next ==
    \/ \E inputs \in IdentityInputs, credentials \in Credentials :
          DeployStart(inputs, credentials)
    \/ DeployDescribe
    \/ DeployCreate
    \/ DeployUpdate
    \/ RemoveStart
    \/ RemoveDescribe
    \/ RemoveDelete
    \/ Exit
    \/ ProviderActive
    \/ \E region \in IdentityRegions, name \in IdentityNames : ExternalCreate(region, name)
    \/ ExternalDelete

Spec == Init /\ [][Next]_vars

\* the settings of one table: indexes, stream and replicas vary, the identity is fixed
Idx(name) == [IndexName |-> name, KeySchema |-> "k1"]

Replica(region) == [RegionName |-> region]

ReconcileInputs ==
    Merge2({[name |-> "t1", deletionPolicy |-> "delete"]},
           Merge2(Optional("globalSecondaryIndexes",
                           { <<Idx("a"), Idx("b")>>, <<Idx("b"), Idx("c")>> }),
                  Merge2(Optional("stream",
                                  {[StreamEnabled |-> TRUE, StreamViewType |-> "NEW_IMAGE"]}),
                         Optional("replicas",
                                  { <<Replica("eu-west-1")>>,
                                    <<Replica("ap-south-1"), Replica("eu-west-1")>> }))))

ReconcileNext ==
    \/ \E inputs \in ReconcileInputs : DeployStart(inputs, [accessKeyId |-> "AKIA"])
    \/ DeployDescribe
    \/ DeployCreate
    \/ DeployUpdate
    \/ DeployPoll
    \/ DeployWait
    \/ DeployReplicas
    \/ RemoveStart
    \/ RemoveDescribe
    \/ RemoveReplicas
    \/ RemoveWait
    \/ RemoveDelete
    \/ Exit
    \/ ProviderStreamReady
    \/ ProviderActive
    \/ ExternalCreate("us-east-1", "t1")
    \/ ExternalDelete

ReconcileSpec == Init /\ [][ReconcileNext]_vars

\* the stream of one table: only the stream setting varies; the poll loop of a
\* running deploy is never abandoned (every awaited promise settles)
PollInputs ==
    Merge2({[name |-> "t1"]},
           Optional("stream", {[StreamEnabled |-> TRUE, StreamViewType |-> "NEW_IMAGE"],
                               [StreamEnabled |-> TRUE, StreamViewType |-> "KEYS_ONLY"],
                               NullObj}))

PollNext ==
    \/ \E inputs \in PollInputs : DeployStart(inputs, [accessKeyId |-> "AKIA"])
    \/ DeployDescribe
    \/ DeployCreate
    \/ DeployUpdate
    \/ DeployPoll
    \/ Exit
    \/ ProviderStreamReady
    \/ ProviderActive

PollSpec == Init /\ [][PollNext]_vars /\ WF_vars(DeployPoll)

\* the indexes of one deployed table: the desired list is the same in every
\* deploy of a behaviour, nobody else changes the table
MaxConverge == 2  \* longest index list drawn
MaxDeploys == 3   \* successful deploys per behaviour

ConvergeNames == {"a", "b", "c", "d"}

ConvergeLists ==
    {list \in SeqsUpTo({Idx(n) : n \in ConvergeNames}, MaxConverge) :
        \A i, j \in DOMAIN list : list[i] = list[j] => i = j}

\* after deploy({name: 't1', globalSecondaryIndexes: observed}) has created the table
ConvergeInit ==
    /\ \E observed \in ConvergeLists, desired \in ConvergeLists :
          /\ tables = (<<"us-east-1", "t1">> :>
                           Active(NewTable(observed, defaults.stream, Undefined)))
          /\ hist = [tracking |-> TRUE, desired |-> desired, initial |-> observed,
                     deploys |-> 0]
    /\ state = [name |-> "t1", region |-> "us-east-1",
                arn |-> TableArn("us-east-1", "t1"), streamArn |-> False]
    /\ pc = "idle"
    /\ config = EmptyObj
    /\ prevTable = UndefinedObj
    /\ tries = 0
    /\ calls = <<>>
    /\ result = [kind |-> "none"]
    /\ run = NoRun
    /\ ext = 0
    /\ fn = NoCall

ConvergeNext ==
    \/ /\ hist.deploys < MaxDeploys
       /\ DeployStart([name |-> "t1", globalSecondaryIndexes |-> hist.desired],
                      [accessKeyId |-> "AKIA"])
    \/ DeployDescribe
    \/ DeployCreate
    \/ DeployUpdate
    \/ Exit
    \/ ProviderActive

ConvergeSpec == ConvergeInit /\ [][ConvergeNext]_vars

\* remove on any persisted state the framework may hand to it
PersistedStates ==
    Merge2(Optional("name", {"t1"}),
           Merge2(Optional("deletionPolicy", {"retain", "delete"}),
                  Merge2(Optional("region", {"us-east-1"}),
                         Optional("arn", {TableArn("us-east-1", "t1")}))))

ProvisionedTables ==
    { <<>>,
      (<<"us-east-1", "t1">> :> Active(NewTable(<<>>, UndefinedObj, Undefined))),
      (<<"us-east-1", "t1">> :>
          [Active(NewTable(<<>>, UndefinedObj, Undefined)) EXCEPT
              !.replicas = <<Replica("eu-west-1")>>]) }

RemoveInit ==
    /\ state \in PersistedStates
    /\ tables \in ProvisionedTables
    /\ pc = "idle"
    /\ config = EmptyObj
    /\ prevTable = UndefinedObj
    /\ tries = 0
    /\ calls = <<>>
    /\ result = [kind |-> "none"]
    /\ run = NoRun
    /\ ext = 0
    /\ fn = NoCall
    /\ hist = NoHist

RemoveNext ==
    \/ RemoveStart
    \/ RemoveDescribe
    \/ RemoveReplicas
    \/ RemoveWait
    \/ RemoveDelete
    \/ Exit
    \/ ProviderActive
    \/ ExternalDelete

RemoveSpec == RemoveInit /\ [][RemoveNext]_vars

\* the pure reconcilers applied to drawn arguments
IndexLists == SeqsUpTo(Indexes, MaxIdx)

StreamArgs == StreamSpecs \cup {UndefinedObj, NullObj}

ReplicaLists == SeqsUpTo({Replica(r) : r \in RegionNames}, MaxReplicas)

ApplyGetGlobalIndexesUpdates ==
    /\ fn = NoCall
    /\ \E prev \in IndexLists, next \in IndexLists :
          fn' = [name |-> "getGlobalIndexesUpdates", prev |-> prev, next |-> next,
                 ret |-> getGlobalIndexesUpdates(prev, next)]
    /\ UNCHANGED <<state, tables, pc, config, prevTable, tries, calls, result, run, ext,
                   hist>>

ApplyGetStreamUpdates ==
    /\ fn = NoCall
    /\ \E prev \in StreamArgs, next \in StreamArgs :
          fn' = [name |-> "getStreamUpdates", prev |-> prev, next |-> next,
                 ret |-> getStreamUpdates(prev, next)]
    /\ UNCHANGED <<state, tables, pc, config, prevTable, tries, calls, result, run, ext,
                   hist>>

ApplyUpdateReplicas ==
    /\ fn = NoCall
    /\ \E prev \in ReplicaLists, next \in ReplicaLists :
          fn' = [name |-> "updateReplicas", prev |-> prev, next |-> next,
                 ret |-> updateReplicasPlan(prev, next)]
    /\ UNCHANGED <<state, tables, pc, config, prevTable, tries, calls, result, run, ext,
                   hist>>

FnNext ==
    \/ ApplyGetGlobalIndexesUpdates
    \/ ApplyGetStreamUpdates
    \/ ApplyUpdateReplicas

FnSpec == Init /\ [][FnNext]_vars

-----------------------------------------------------------------------------
(* Properties *)

Min(S) == CHOOSE m \in S : \A x \in S : m <= x

IndexNamesOf(list) == {list[i].IndexName : i \in DOMAIN list}

RegionSetOf(replicas) == {replicas[i].RegionName : i \in DOMAIN replicas}

\* C1: the payload of getGlobalIndexesUpdates has no key but Create and Delete;
\* Create is present exactly when some desired index has a name no previous index
\* has, and is then the first such desired index; Delete is present exactly when
\* some previous index has a name no desired index has, and is then the name, and
\* only the name, of the first such previous index.
C1_IndexDiffFirstByOrder ==
    fn.name = "getGlobalIndexesUpdates" =>
        LET newAt == {i \in DOMAIN fn.next :
                         fn.next[i].IndexName \notin IndexNamesOf(fn.prev)}
            goneAt == {i \in DOMAIN fn.prev :
                          fn.prev[i].IndexName \notin IndexNamesOf(fn.next)}
        IN  /\ DOMAIN fn.ret \subseteq {"Create", "Delete"}
            /\ ("Create" \in DOMAIN fn.ret) <=> (newAt # {})
            /\ newAt # {} => fn.ret.Create = fn.next[Min(newAt)]
            /\ ("Delete" \in DOMAIN fn.ret) <=> (goneAt # {})
            /\ goneAt # {} =>
                  fn.ret.Delete = [IndexName |-> fn.prev[Min(goneAt)].IndexName]

\* two indexes to create and one to delete: only the first create is in the payload
C1_Witness ==
    /\ fn.name = "getGlobalIndexesUpdates"
    /\ fn.prev = <<[IndexName |-> "c", KeySchema |-> "k1"]>>
    /\ fn.next = <<[IndexName |-> "b", KeySchema |-> "k2"],
                   [IndexName |-> "a", KeySchema |-> "k1"]>>
    /\ fn.ret = [Create |-> [IndexName |-> "b", KeySchema |-> "k2"],
                 Delete |-> [IndexName |-> "c"]]

EnabledSpecs == {s \in StreamSpecs : "StreamEnabled" \in DOMAIN s /\ s.StreamEnabled}

\* C2: getStreamUpdates returns {StreamEnabled: false} exactly when the previous
\* stream is enabled and the desired one is not, the desired spec exactly when the
\* previous stream is absent or disabled and the desired one is enabled, and null
\* (no change) otherwise.
C2_StreamDecisionTable ==
    fn.name = "getStreamUpdates" =>
        LET prevOn == fn.prev \in EnabledSpecs
            nextOn == fn.next \in EnabledSpecs
        IN  /\ (prevOn /\ ~nextOn) => fn.ret = [StreamEnabled |-> FALSE]
            /\ (~prevOn /\ nextOn) => fn.ret = fn.next
            /\ (prevOn <=> nextOn) => fn.ret = NullObj

\* previous stream enabled, desired spec without StreamEnabled: Disable
C2_Witness ==
    /\ fn.name = "getStreamUpdates"
    /\ fn.prev = [StreamEnabled |-> TRUE, StreamViewType |-> "KEYS_ONLY"]
    /\ fn.next = [StreamViewType |-> "NEW_IMAGE"]
    /\ fn.ret = [StreamEnabled |-> FALSE]

CredentialsFound == result.kind # "CredentialsError"

RenamingDeploy ==
    /\ run.op = "deploy"
    /\ CredentialsFound
    /\ Truthy(Get(run.inputs, "name"))
    /\ Truthy(Get(run.state0, "name"))
    /\ Get(run.inputs, "name") # Get(run.state0, "name")

\* C3: a deploy given a name other than the persisted one ends with the name error,
\* has issued no provider call and has left this.state as it was.
C3_RenameRejected ==
    RenamingDeploy =>
        /\ pc = "done"
        /\ result.kind = "NameError"
        /\ calls = <<>>
        /\ state = run.state0

\* table t1 is deployed, a deploy names t2
C3_Witness ==
    /\ RenamingDeploy
    /\ Get(run.state0, "name") = "t1"
    /\ Truthy(Get(run.state0, "arn"))
    /\ run.inputs.name = "t2"
    /\ result.kind = "NameError"

NoProviderFailure == \A i \in DOMAIN calls : calls[i].outcome = "ok"

\* no provider call of the run failed with an error other than "not found"
NoProviderError == \A i \in DOMAIN calls : calls[i].outcome # "error"

EffectiveRegion == mergeDeepRight(defaults, run.inputs).region

\* C4 as claimed: a deploy of the persisted table whose effective region differs
\* from the persisted region ends with the region error and has issued no provider
\* call (here: whenever no provider call it did issue failed).
C4_RegionChangeRejected ==
    ( /\ pc = "done"
      /\ run.op = "deploy"
      /\ CredentialsFound
      /\ Get(run.inputs, "name") = Get(run.state0, "name")
      /\ NoProviderError
      /\ Truthy(Get(run.state0, "region"))
      /\ EffectiveRegion # Get(run.state0, "region") )
    => /\ result.kind = "RegionError"
       /\ calls = <<>>

\* C5: remove with a deletionPolicy other than "delete" (or none) returns {} with
\* no provider call and this.state as it was; with "delete" and no name it returns
\* with no provider call; so provider calls need "delete" and a name.
C5_DeletionGate ==
    run.op = "remove" =>
        LET policy == Get(run.state0, "deletionPolicy")
            name == Get(run.state0, "name")
        IN  /\ policy # "delete" =>
                  /\ pc = "done"
                  /\ result = [kind |-> "ok", outputs |-> EmptyObj]
                  /\ calls = <<>>
                  /\ state = run.state0
            /\ (policy = "delete" /\ ~Truthy(name)) =>
                  /\ pc = "done"
                  /\ result.kind = "ok"
                  /\ calls = <<>>
                  /\ state = run.state0
            /\ calls # <<>> => (policy = "delete" /\ Truthy(name))

\* a table with a replica and deletionPolicy "retain": remove skips it
C5_Witness ==
    /\ run.op = "remove"
    /\ pc = "done"
    /\ Get(run.state0, "deletionPolicy") = "retain"
    /\ Get(run.state0, "name") = "t1"
    /\ TableExists(<<"us-east-1", "t1">>)
    /\ tables[<<"us-east-1", "t1">>].replicas # <<>>
    /\ result = [kind |-> "ok", outputs |-> EmptyObj]

\* C6 as claimed: a first deploy without name and region that succeeds persists a
\* generated name and the default region; a second deploy with the same inputs
\* addresses the persisted name, creates no table, succeeds when the provider does
\* not fail and leaves this.state as it was.
C6_SecondDeployNoOp ==
    ( /\ run.op = "deploy"
      /\ CredentialsFound
      /\ ext = 0
      /\ "name" \notin DOMAIN run.inputs
      /\ "region" \notin DOMAIN run.inputs )
    => /\ (run.state0 = EmptyObj /\ pc = "done" /\ result.kind = "ok") =>
              /\ Get(state, "name") \in GeneratedNames
              /\ Get(state, "region") = defaults.region
       /\ ( /\ Get(run.state0, "name") \in GeneratedNames
            /\ Get(run.state0, "region") = defaults.region
            /\ Get(run.state0, "deletionPolicy") = Get(run.inputs, "deletionPolicy") )
          => /\ \A i \in DOMAIN calls :
                   /\ calls[i].name = Get(run.state0, "name")
                   /\ calls[i].op # "createTable"
             /\ (pc = "done" /\ NoProviderFailure) =>
                   (result.kind = "ok" /\ state = run.state0)

\* the deploy of the run has observed a table that is what the inputs ask for
ObservedAsDesired ==
    /\ run.op = "deploy"
    /\ calls # <<>>
    /\ calls[1].outcome = "ok"
    /\ LET desired == mergeDeepRight(defaults, run.inputs)
           observed == calls[1].res
       IN  /\ IndexNamesOf(desired.globalSecondaryIndexes)
                 = IndexNamesOf(observed.globalSecondaryIndexes)
           /\ StreamEnabledOf(desired.stream)
                 = (IsObj(observed.stream) /\ StreamEnabledOf(observed.stream))
           /\ RegionSetOf(desired.replicas) = RegionSetOf(observed.replicas)
           /\ Get(desired, "deletionPolicy") = Get(run.state0, "deletionPolicy")

UpdateCalls == {i \in DOMAIN calls : calls[i].op = "updateTable"}

\* C7 as claimed: when the observed table is what the inputs ask for, the update
\* carries no index updates and no stream specification, no replica update is
\* sent, and this.state after the run is this.state before it.
C7_Idempotent ==
    ObservedAsDesired =>
        /\ \A i \in UpdateCalls :
              DOMAIN calls[i] \cap {"GlobalSecondaryIndexUpdates", "StreamSpecification",
                                    "ReplicaUpdates"} = {}
        /\ pc = "done" => state = run.state0

\* C8 as claimed: a describe call that fails with an error other than "not found"
\* ends the run with that error; nothing is called after it.
C8_DescribeErrorFatal ==
    \A i \in DOMAIN calls :
        (calls[i].op = "describeTable" /\ calls[i].outcome = "error") =>
            /\ i = Len(calls)
            /\ pc = "done"
            /\ result.kind = "ProviderError"

\* C9 as claimed: a remove with deletionPolicy "delete" and a name, none of whose
\* provider calls failed with an error other than "not found", succeeds and clears
\* this.state.
C9_RemoveToleratesAbsent ==
    ( /\ pc = "done"
      /\ run.op = "remove"
      /\ Get(run.state0, "deletionPolicy") = "delete"
      /\ Truthy(Get(run.state0, "name"))
      /\ NoProviderError )
    => /\ result.kind = "ok"
       /\ state = EmptyObj

PermutationsOf(s) ==
    {[i \in DOMAIN s |-> s[p[i]]] :
        p \in {q \in [DOMAIN s -> DOMAIN s] : \A i, j \in DOMAIN s : q[i] = q[j] => i = j}}

PermutationInvariant ==
    /\ \A p \in PermutationsOf(fn.prev) : updateReplicasPlan(p, fn.next).noop = fn.ret.noop
    /\ \A p \in PermutationsOf(fn.next) : updateReplicasPlan(fn.prev, p).noop = fn.ret.noop

Count(list, x) == Cardinality({i \in DOMAIN list : list[i] = x})

NoRepeats(list) == \A i, j \in DOMAIN list : list[i] = list[j] => i = j

\* C10 as claimed: updateReplicas is a no-op whenever the two lists have the same
\* set of regions, and permuting either list does not change whether it is one.
C10_NoOpBySets ==
    fn.name = "updateReplicas" =>
        /\ RegionSetOf(fn.prev) = RegionSetOf(fn.next) => fn.ret.noop
        /\ PermutationInvariant

\* C10 as amended: updateReplicas is a no-op exactly when the two lists hold every
\* region the same number of times, which for lists without repeated regions is
\* exactly when their region sets are equal; permuting either list does not
\* change whether it is one.
C10_NoOpByContents ==
    fn.name = "updateReplicas" =>
        /\ fn.ret.noop <=> \A r \in RegionNames :
                              Count(RegionsOf(fn.prev), r) = Count(RegionsOf(fn.next), r)
        /\ (NoRepeats(fn.prev) /\ NoRepeats(fn.next)) =>
              (fn.ret.noop <=> RegionSetOf(fn.prev) = RegionSetOf(fn.next))
        /\ PermutationInvariant

\* the same three regions in two orders: no-op
C10_Witness ==
    /\ fn.name = "updateReplicas"
    /\ fn.prev = <<Replica("us-east-1"), Replica("ap-south-1"), Replica("eu-west-1")>>
    /\ fn.next = <<Replica("eu-west-1"), Replica("us-east-1"), Replica("ap-south-1")>>
    /\ fn.ret.noop

\* the entries of a ReplicaUpdates list that are exactly {kind: {RegionName: region}}
OpsFor(updates, kind, region) ==
    {i \in DOMAIN updates : updates[i] = (kind :> [RegionName |-> region])}

\* C11: when the region sets of the previous and the desired replicas differ,
\* updateReplicas does not return early, and the ReplicaUpdates of its one
\* updateTable call hold exactly one Create for each region desired and not
\* previous, exactly one Delete for each region previous and not desired, and
\* no other entry.
C11_ReplicaDiff ==
    (fn.name = "updateReplicas" /\ RegionSetOf(fn.prev) # RegionSetOf(fn.next)) =>
        /\ ~fn.ret.noop
        /\ LET updates == fn.ret.ReplicaUpdates
               toAdd == RegionSetOf(fn.next) \ RegionSetOf(fn.prev)
               toRemove == RegionSetOf(fn.prev) \ RegionSetOf(fn.next)
           IN  /\ \A r \in toAdd : Cardinality(OpsFor(updates, "Create", r)) = 1
               /\ \A r \in toRemove : Cardinality(OpsFor(updates, "Delete", r)) = 1
               /\ Len(updates) = Cardinality(toAdd) + Cardinality(toRemove)

\* previous [us-east-1], desired [us-east-1, eu-west-1]: Create eu-west-1 only
C11_Witness ==
    /\ fn.name = "updateReplicas"
    /\ fn.prev = <<Replica("us-east-1")>>
    /\ fn.next = <<Replica("us-east-1"), Replica("eu-west-1")>>
    /\ fn.ret = [noop |-> FALSE,
                 ReplicaUpdates |-> <<[Create |-> [RegionName |-> "eu-west-1"]]>>]

ReplicaCalls == {i \in DOMAIN calls : "ReplicaUpdates" \in DOMAIN calls[i]}

\* the table-level create or update calls of the run that returned successfully
TableCommits ==
    {i \in DOMAIN calls : /\ calls[i].op \in {"createTable", "updateTable"}
                          /\ "ReplicaUpdates" \notin DOMAIN calls[i]
                          /\ calls[i].outcome = "ok"}

WaitsReturned == {i \in DOMAIN calls : calls[i].op = "waitFor" /\ calls[i].outcome = "ok"}

\* C12: in a deploy, a call carrying ReplicaUpdates is submitted only after a
\* waitFor of the run has returned, that waitFor was issued after the createTable
\* or updateTable of the run returned, the table is not in transition (CREATING,
\* UPDATING) when the replica update is submitted, and the run submits at most one.
C12_ReplicasAfterActive ==
    run.op = "deploy" =>
        /\ \A i \in ReplicaCalls :
              /\ \E j \in WaitsReturned :
                    /\ j < i
                    /\ \E k \in TableCommits : k < j
              /\ calls[i].status \notin InTransition
        /\ Cardinality(ReplicaCalls) <= 1

\* a first deploy with two replicas: createTable, waitFor once the table is
\* ACTIVE, then the replica update
C12_Witness ==
    /\ run.op = "deploy"
    /\ pc = "done"
    /\ result.kind = "ok"
    /\ Len(calls) = 4
    /\ calls[2].op = "createTable"
    /\ calls[3].op = "waitFor"
    /\ calls[4].op = "updateTable"
    /\ calls[4].status = "ACTIVE"
    /\ Len(calls[4].ReplicaUpdates) = 2

\* the describe calls getStreamArn made in the run
Polls ==
    {i \in DOMAIN calls : calls[i].op = "describeTable" /\ calls[i].by = "getStreamArn"}

FoundArn(i) == IsObj(calls[i].res) /\ Truthy(calls[i].res.streamArn)

Max(S) == CHOOSE m \in S : \A x \in S : m >= x

C13_PollBounded ==
    /\ Cardinality(Polls) <= maxTries
    /\ pc = "deploy_poll" => (tries = Cardinality(Polls) /\ tries < maxTries)
    /\ \A i \in Polls :
          IF i < Max(Polls) \/ pc = "deploy_poll"
          THEN IsObj(calls[i].res) /\ ~FoundArn(i)
          ELSE IF FoundArn(i)
          THEN /\ Get(state, "streamArn") = calls[i].res.streamArn
               /\ result.kind = "ok" => result.outputs.streamArn = calls[i].res.streamArn
          ELSE /\ pc = "done"
               /\ result.kind \in {"StreamArnError", "TypeError"}
               /\ (Cardinality(Polls) = maxTries /\ IsObj(calls[i].res)) =>
                      result.kind = "StreamArnError"

\* C13: getStreamArn terminates; a run makes at most maxTries (5) polling
\* describe calls, counted from zero in every run; the poll returns the stream
\* ARN of the first attempt that finds one, which is what the run persists and
\* returns; when no attempt finds one the deploy fails, with the stream ARN error
\* when all maxTries attempts came back without one, and never completes.
C13_PollTerminates ==
    /\ []C13_PollBounded
    /\ (pc = "deploy_poll") ~> (pc # "deploy_poll")

\* five attempts, none finds a stream ARN: the deploy fails with the stream ARN error
C13_Witness ==
    /\ pc = "done"
    /\ result.kind = "StreamArnError"
    /\ Cardinality(Polls) = maxTries
    /\ \A i \in Polls : IsObj(calls[i].res) /\ ~FoundArn(i)

DescribesAnswered ==
    \A i \in DOMAIN calls : calls[i].op = "describeTable" => calls[i].outcome # "error"

\* C14 as claimed: a deploy that fails before a createTable or updateTable of the
\* run has succeeded (every describeTable having been answered) leaves this.state
\* as it was: the name of the run is not recorded.
C14_FailedDeployKeepsState ==
    ( /\ run.op = "deploy"
      /\ pc = "done"
      /\ result.kind # "ok"
      /\ DescribesAnswered
      /\ TableCommits = {} )
    => state = run.state0

\* the fields deploy writes at lines 110-114, but for the name (written at 55/59 too)
CommitFields == <<"arn", "streamArn", "region", "deletionPolicy">>

ReplicaReconciliationFailed ==
    /\ pc = "done"
    /\ result.kind # "ok"
    /\ calls # <<>>
    /\ calls[Len(calls)].op = "waitFor" \/ Len(calls) \in ReplicaCalls

\* C15 as claimed: in a deploy the waitFor and the replica update of updateReplicas
\* come after the createTable or updateTable of the run has returned successfully;
\* when the waitFor or the replica update fails, arn, streamArn, region and
\* deletionPolicy of this.state are as they were at the start of the run.
C15_StateAfterReplicas ==
    run.op = "deploy" =>
        /\ \A i \in DOMAIN calls :
              (calls[i].op = "waitFor" \/ i \in ReplicaCalls) =>
                  \E k \in TableCommits : k < i
        /\ ReplicaReconciliationFailed =>
              pick(CommitFields, state) = pick(CommitFields, run.state0)

\* C16: in a remove, deleteTable is issued right after the describeTable when the
\* observed table has no replicas (no replica update, no waitFor); when it has
\* replicas, only after one updateTable whose ReplicaUpdates are a Delete for
\* every observed replica region and nothing else has returned and a waitFor
\* issued after it has returned, the table then not being in transition.
C16_DeleteAfterReplicasGone ==
    run.op = "remove" =>
        \A i \in DOMAIN calls :
            calls[i].op = "deleteTable" =>
                LET observed == calls[1].res.replicas
                IN  IF observed = <<>>
                    THEN i = 2
                    ELSE /\ i = 4
                         /\ calls[2].op = "updateTable"
                         /\ calls[2].outcome = "ok"
                         /\ Len(calls[2].ReplicaUpdates) = Len(observed)
                         /\ \A r \in RegionSetOf(observed) :
                               OpsFor(calls[2].ReplicaUpdates, "Delete", r) # {}
                         /\ \A j \in DOMAIN calls[2].ReplicaUpdates :
                               DOMAIN calls[2].ReplicaUpdates[j] = {"Delete"}
                         /\ calls[3].op = "waitFor"
                         /\ calls[3].outcome = "ok"
                         /\ calls[4].status \notin InTransition

\* a table with two replicas is removed
C16_Witness ==
    /\ run.op = "remove"
    /\ pc = "done"
    /\ result.kind = "ok"
    /\ Len(calls) = 4
    /\ Len(calls[1].res.replicas) = 2
    /\ calls[4].op = "deleteTable"
    /\ calls[4].outcome = "ok"

DesiredStreamEnabled == StreamEnabledOf(mergeDeepRight(defaults, run.inputs).stream)

\* C17 as claimed: a deploy that succeeds with the desired stream enabled returns
\* and persists a non-empty stream ARN, on the create branch too.
C17_StreamArnAfterDeploy ==
    ( /\ run.op = "deploy"
      /\ pc = "done"
      /\ result.kind = "ok"
      /\ DesiredStreamEnabled )
    => /\ Truthy(Get(result.outputs, "streamArn"))
       /\ Truthy(Get(state, "streamArn"))

\* the updateTable of the update branch, once it has returned successfully
TableUpdates ==
    {i \in TableCommits : calls[i].op = "updateTable"}

\* the stream decision of the run is Enable: the update carries the desired spec
DecisionEnable(i) ==
    /\ "StreamSpecification" \in DOMAIN calls[i]
    /\ StreamEnabledOf(calls[i].StreamSpecification)

\* C18 as claimed: on the update branch getStreamArn polls only when the stream
\* decision of the run is Enable.
C18_PollOnlyOnEnable ==
    run.op = "deploy" =>
        \A i \in TableUpdates : ~DecisionEnable(i) => (Polls = {} /\ pc # "deploy_poll")

\* C18 as amended: on the update branch getStreamArn polls, after the update has
\* returned, exactly when the desired stream is enabled, whether the decision is
\* Enable or NoChange; when the desired stream is not enabled (Disable, or
\* NoChange on a disabled stream) there is no polling describe call.
C18_PollWhenDesiredEnabled ==
    run.op = "deploy" =>
        /\ (Polls # {} \/ pc = "deploy_poll") => (TableUpdates # {} /\ DesiredStreamEnabled)
        /\ \A i \in TableUpdates :
              /\ \A j \in Polls : i < j
              /\ DesiredStreamEnabled => (Polls # {} \/ pc = "deploy_poll")

\* the stream is enabled and stays so: the update carries no StreamSpecification
\* and the run polls all the same
C18_Witness ==
    /\ run.op = "deploy"
    /\ pc = "done"
    /\ result.kind = "ok"
    /\ TableUpdates # {}
    /\ \A i \in TableUpdates : "StreamSpecification" \notin DOMAIN calls[i]
    /\ Polls # {}

\* C19 as claimed: a deploy that starts with no region in this.state never fails
\* with the region error.
C19_NoRegionErrorOnFirstDeploy ==
    (run.op = "deploy" /\ ~Truthy(Get(run.state0, "region"))) =>
        result.kind # "RegionError"

\* n - k, or 0 when k is larger
Minus(n, k) == IF n > k THEN n - k ELSE 0

DesiredNames == IndexNamesOf(hist.desired)

FirstObservedNames == IndexNamesOf(hist.initial)

ObservedNames == IndexNamesOf(tables[<<"us-east-1", "t1">>].gsi)

ToCreateAtFirst == Cardinality(DesiredNames \ FirstObservedNames)

ToDeleteAtFirst == Cardinality(FirstObservedNames \ DesiredNames)

\* C20: with the same desired index list in every deploy and a provider that
\* applies every submitted index create and delete, after n successful deploys the
\* desired names not yet observed are n fewer than at first (or none) and so are
\* the observed names no longer desired: each successful deploy takes one from
\* each set that is not empty.  So after max(to create, to delete) successful
\* deploys the observed names are the desired names, and a deploy that observes
\* the desired names sends no GlobalSecondaryIndexUpdates.
C20_IndexConvergence ==
    /\ Cardinality(DesiredNames \ ObservedNames) = Minus(ToCreateAtFirst, hist.deploys)
    /\ Cardinality(ObservedNames \ DesiredNames) = Minus(ToDeleteAtFirst, hist.deploys)
    /\ (hist.deploys >= ToCreateAtFirst /\ hist.deploys >= ToDeleteAtFirst) =>
          ObservedNames = DesiredNames
    /\ \A i \in DOMAIN calls :
          ( /\ calls[i].op = "updateTable"
            /\ calls[1].outcome = "ok"
            /\ IndexNamesOf(calls[1].res.globalSecondaryIndexes) = DesiredNames )
          => "GlobalSecondaryIndexUpdates" \notin DOMAIN calls[i]

\* two indexes to create and two to delete: the second successful deploy makes the
\* observed names the desired ones, the third sends no index update
C20_Witness ==
    /\ ToCreateAtFirst = 2
    /\ ToDeleteAtFirst = 2
    /\ hist.deploys = 3
    /\ pc = "done"
    /\ result.kind = "ok"
    /\ ObservedNames = DesiredNames
    /\ Len(calls) = 2
    /\ calls[2].op = "updateTable"
    /\ "GlobalSecondaryIndexUpdates" \notin DOMAIN calls[2]

====
